---- MODULE Spec2Model ----
(***************************************************************************)
(* A model of src/rpcprotocol.cpp: the HTTP framing (request line, header  *)
(* collection, bounded body read, connection normalisation), the HTTP      *)
(* response formatting (HTTPPost, HTTPReply, HTTPError) and the JSON-RPC   *)
(* reply envelope.                                                         *)
(*                                                                         *)
(* Byte strings are TLA+ strings; Len, \o and SubSeq act on them byte by   *)
(* byte.  An input stream is a record [data, eof, fail]: the bytes not yet *)
(* consumed and the eofbit and failbit of std::basic_istream.              *)
(***************************************************************************)
EXTENDS Integers, Sequences, FiniteSets, TLC

\* ------------------------------------------------------------------ bytes

Min(a, b) == IF a < b THEN a ELSE b

\* the byte of s at position i, from 1
Ch(s, i) == SubSeq(s, i, i)

\* s without its first n bytes (all of them when it holds fewer)
Drop(s, n) == IF n >= Len(s) THEN "" ELSE SubSeq(s, n + 1, Len(s))

\* the first n bytes of s (all of them when it holds fewer)
Take(s, n) == IF n <= 0 THEN "" ELSE SubSeq(s, 1, Min(n, Len(s)))

\* n copies of s, built by doubling
RECURSIVE Rep(_, _)
Rep(s, n) ==
    IF n <= 0 THEN ""
    ELSE IF n % 2 = 0 THEN LET h == Rep(s, n \div 2) IN h \o h
    ELSE s \o Rep(s, n - 1)

\* strstr / string::find: the 1-based index of the first occurrence of pat
\* in s at or after position i, 0 when there is none; the scan goes left to
\* right a window of positions at a time
RECURSIVE FindFrom(_, _, _)
FindFrom(s, pat, i) ==
    LET last == Len(s) - Len(pat) + 1
        hits == {j \in i..Min(i + 63, last) : SubSeq(s, j, j + Len(pat) - 1) = pat}
    IN  IF i > last THEN 0
        ELSE IF hits # {} THEN CHOOSE j \in hits : \A k \in hits : j <= k
        ELSE FindFrom(s, pat, i + 64)

Find(s, pat) == FindFrom(s, pat, 1)

\* std::isspace in the classic locale (the vertical tab has no TLA+ escape)
IsSpace(c) == c \in {" ", "\t", "\n", "\r", "\f"}

UpperChars == "ABCDEFGHIJKLMNOPQRSTUVWXYZ"

LowerChars == "abcdefghijklmnopqrstuvwxyz"

DigitChars == "0123456789"

\* the value of each decimal digit
DigitVal == [c \in {Ch(DigitChars, i) : i \in 1..10} |->
                (CHOOSE i \in 1..10 : Ch(DigitChars, i) = c) - 1]

IsDigit(c) == c \in DOMAIN DigitVal

\* the lowercase letter of each uppercase letter
LowerOf == [c \in {Ch(UpperChars, i) : i \in 1..26} |->
               Ch(LowerChars, CHOOSE i \in 1..26 : Ch(UpperChars, i) = c)]

\* std::tolower on one byte
ToLowerCh(c) == IF c \in DOMAIN LowerOf THEN LowerOf[c] ELSE c

\* boost::to_lower
RECURSIVE ToLower(_)
ToLower(s) ==
    IF s = "" THEN "" ELSE ToLowerCh(Ch(s, 1)) \o ToLower(Drop(s, 1))

RECURSIVE TrimLeft(_)
TrimLeft(s) ==
    IF s # "" /\ IsSpace(Ch(s, 1)) THEN TrimLeft(Drop(s, 1)) ELSE s

RECURSIVE TrimRight(_)
TrimRight(s) ==
    IF s # "" /\ IsSpace(Ch(s, Len(s))) THEN TrimRight(Take(s, Len(s) - 1)) ELSE s

\* boost::trim
Trim(s) == TrimRight(TrimLeft(s))

\* boost::split(v, s, is_any_of(" ")) without token compression: every single
\* space separates two tokens, so n spaces give n + 1 tokens
RECURSIVE Split(_)
Split(s) ==
    LET i == Find(s, " ")
    IN  IF i = 0 THEN <<s>> ELSE <<Take(s, i - 1)>> \o Split(Drop(s, i))

\* INT_MAX and INT_MIN of a 32-bit int
IntMax == 2147483647

IntMin == -IntMax - 1

\* The leading decimal digits of s, accumulated as a negative number m the
\* way an int accumulator holds them: ovf is set once the digits no longer
\* fit an int; hi and lo are the two 16-bit halves of the low 32 bits of the
\* digits' value.
RECURSIVE ScanDigits(_, _)
ScanDigits(s, acc) ==
    IF s # "" /\ IsDigit(Ch(s, 1))
    THEN LET d == DigitVal[Ch(s, 1)]
             fits == ~acc.ovf /\ (acc.m > -214748364 \/ (acc.m = -214748364 /\ d <= 8))
             lo10 == acc.lo * 10 + d
         IN  ScanDigits(Drop(s, 1),
                        [m |-> IF fits THEN 10 * acc.m - d ELSE 0,
                         ovf |-> ~fits,
                         hi |-> (acc.hi * 10 + lo10 \div 65536) % 65536,
                         lo |-> lo10 % 65536])
    ELSE acc

\* the 32 bits hi:lo read as a two's complement int
Signed32(hi, lo) == (IF hi >= 32768 THEN hi - 65536 ELSE hi) * 65536 + lo

\* atoi: skip white space, take an optional sign, then the leading decimal
\* digits; 0 when there are none.  The result is the set of values the call
\* can return: the value itself when it fits an int.  When it does not, the
\* behaviour is undefined; the builds in use keep the low 32 bits, or clamp
\* to INT_MAX / INT_MIN, or truncate a clamped long (-1, 0).
Atoi(s) ==
    LET t == TrimLeft(s)
        neg == t # "" /\ Ch(t, 1) = "-"
        signed == t # "" /\ Ch(t, 1) \in {"-", "+"}
        r == ScanDigits(IF signed THEN Drop(t, 1) ELSE t,
                        [m |-> 0, ovf |-> FALSE, hi |-> 0, lo |-> 0])
        low == Signed32(r.hi, r.lo)
    IN  IF ~r.ovf /\ (neg \/ r.m > IntMin)
        THEN {IF neg THEN r.m ELSE -r.m}
        ELSE {IF neg /\ low > IntMin THEN -low ELSE low, IntMax, IntMin, -1, 0}

\* whether atoi(s) is defined: the digits fit an int
AtoiDefined(s) == Cardinality(Atoi(s)) = 1

\* ostream << size_t: the decimal digits of n
RECURSIVE Itoa(_)
Itoa(n) ==
    IF n < 10 THEN Ch(DigitChars, n + 1)
    ELSE Itoa(n \div 10) \o Ch(DigitChars, (n % 10) + 1)

\* ---------------------------------------------------------------- streams

MkStream(bytes) == [data |-> bytes, eof |-> FALSE, fail |-> FALSE]

\* std::getline(stream, str) into a fresh, empty str: <<str, stream after>>
GetLine(st) ==
    IF st.eof \/ st.fail THEN <<"", [st EXCEPT !.fail = TRUE]>>
    ELSE LET i == Find(st.data, "\n")
         IN  IF i > 0
             THEN <<Take(st.data, i - 1), [st EXCEPT !.data = Drop(st.data, i)]>>
             ELSE <<st.data, [data |-> "", eof |-> TRUE, fail |-> st.data = ""]>>

\* stream.read(buf, n): <<the bytes stored, stream after>>
StreamRead(st, n) ==
    IF st.eof \/ st.fail THEN <<"", [st EXCEPT !.fail = TRUE]>>
    ELSE IF Len(st.data) >= n
         THEN <<Take(st.data, n), [st EXCEPT !.data = Drop(st.data, n)]>>
         ELSE <<st.data, [data |-> "", eof |-> TRUE, fail |-> TRUE]>>

\* ------------------------------------------------------------------- maps

EmptyMap == [k \in {} |-> ""]

\* map[k] = v
MapPut(m, k, v) == [x \in DOMAIN m \cup {k} |-> IF x = k THEN v ELSE m[x]]

\* the value map[k] reads; operator[] yields "" for a missing key
MapGet(m, k) == IF k \in DOMAIN m THEN m[k] ELSE ""

\* ------------------------------------------------------------- constants

\* Number of bytes to allocate and read at most at once in post data
POST_READ_SIZE == 256 * 1024

HTTP_OK == 200

HTTP_BAD_REQUEST == 400

HTTP_UNAUTHORIZED == 401

HTTP_FORBIDDEN == 403

HTTP_NOT_FOUND == 404

HTTP_INTERNAL_SERVER_ERROR == 500

\* the byte vector::resize fills new elements with (the byte 0, which a TLA+
\* string cannot hold; no input contains this stand-in)
NulByte == "@"

\* ----------------------------------------------------------------- state

VARIABLES
    pc,             \* where the running call stands
    stream,         \* the input stream of the running call
    mapHeadersRet,  \* ReadHTTPMessage: the header map (out)
    strMessageRet,  \* ReadHTTPMessage: the body (out)
    nProto,         \* ReadHTTPMessage: protocol version (in)
    max_size,       \* ReadHTTPMessage: largest body accepted (in)
    nLen,           \* the declared length ReadHTTPHeaders returns
    vch,            \* the body buffer
    ptr,            \* the body cursor
    bytes_to_read,  \* the size of the last read requested
    ret,            \* the value the call returned
    nReads,         \* history: stream.read calls made by the running call
    bodyStart,      \* history: the bytes that followed the header terminator
    strMsg,         \* history: the message HTTPPost rendered into the stream
    proto,          \* ReadHTTPRequestLine: protocol version (out)
    http_method,    \* ReadHTTPRequestLine: method (out)
    http_uri,       \* ReadHTTPRequestLine: URI (out)
    str,            \* the line the last getline returned
    lineOk,         \* ReadHTTPRequestLine: the value returned
    now,            \* GetTime(): the wall clock, in seconds
    reply,          \* the last HTTP response or JSON-RPC reply text built
    replyObj,       \* the last object JSONRPCReplyObj built
    call,           \* history: the arguments of the last formatting call
    prev,           \* history: the 401 response built before the last one
    prevCall        \* history: the arguments of the call that built prev

vars == <<pc, stream, mapHeadersRet, strMessageRet, nProto, max_size, nLen, vch,
          ptr, bytes_to_read, ret, nReads, bodyStart, strMsg, proto,
          http_method, http_uri, lineOk, str, now, reply, replyObj, call, prev,
          prevCall>>

msgVars == <<stream, mapHeadersRet, strMessageRet, nProto, max_size, nLen, vch,
             ptr, bytes_to_read, nReads, bodyStart, strMsg, str>>

lineVars == <<proto, http_method, http_uri, lineOk>>

fmtVars == <<now, reply, replyObj, call, prev, prevCall>>

None == "none"

\* the value of ret while no call has returned
NoStatus == 0

\* the value of call while no formatting call was made
NoCall == [fn |-> None, nStatus |-> 0, keepalive |-> FALSE, headersOnly |-> FALSE,
           t |-> 0]

Init ==
    /\ pc = "idle"
    /\ stream = MkStream("")
    /\ mapHeadersRet = EmptyMap
    /\ strMessageRet = ""
    /\ nProto = 0
    /\ max_size = 0
    /\ nLen = 0
    /\ vch = ""
    /\ ptr = 0
    /\ bytes_to_read = 0
    /\ ret = NoStatus
    /\ nReads = 0
    /\ bodyStart = None
    /\ strMsg = None
    /\ proto = 0
    /\ http_method = ""
    /\ http_uri = ""
    /\ str = ""
    /\ lineOk = FALSE
    /\ now = 0
    /\ reply = None
    /\ replyObj = <<>>
    /\ call = NoCall
    /\ prev = None
    /\ prevCall = NoCall

\* ------------------------------------------------------- ReadHTTPHeaders

\* the name a header line is stored under: the text before the first colon,
\* trimmed and lowercased
HeaderName(line) == ToLower(Trim(Take(line, Find(line, ":") - 1)))

\* the value a header line stores: the text after the first colon, trimmed
HeaderValue(line) == Trim(Drop(line, Find(line, ":")))

\* whether the line read ends the header loop
EndsHeaders(line) == line = "" \/ line = ""

\* whether a stored header sets the declared length
IsContentLength(strHeader) == strHeader = "content-length"

\* one turn of the loop on a line that does not end it
ReadHTTPHeaders_Line ==
    /\ pc = "headers"
    /\ LET gl == GetLine(stream)
       IN  /\ ~EndsHeaders(gl[1])
           /\ str' = gl[1]
           /\ stream' = gl[2]
           /\ IF Find(gl[1], ":") > 0
              THEN LET strHeader == HeaderName(gl[1])
                       strValue == HeaderValue(gl[1])
                   IN  /\ mapHeadersRet' = MapPut(mapHeadersRet, strHeader, strValue)
                       /\ IF IsContentLength(strHeader)
                          THEN nLen' \in Atoi(strValue)
                          ELSE nLen' = nLen
              ELSE UNCHANGED <<mapHeadersRet, nLen>>
    /\ UNCHANGED <<pc, strMessageRet, nProto, max_size, vch, ptr, bytes_to_read,
                   ret, nReads, bodyStart, strMsg>>
    /\ UNCHANGED lineVars
    /\ UNCHANGED fmtVars

\* the turn that reads an empty line (or nothing, at the end of the stream),
\* and the return of nLen to ReadHTTPMessage
ReadHTTPHeaders_Return ==
    /\ pc = "headers"
    /\ LET gl == GetLine(stream)
       IN  /\ EndsHeaders(gl[1])
           /\ str' = gl[1]
           /\ stream' = gl[2]
           /\ bodyStart' = gl[2].data
    /\ pc' = "checklen"
    /\ UNCHANGED <<mapHeadersRet, strMessageRet, nProto, max_size, nLen, vch, ptr,
                   bytes_to_read, ret, nReads, strMsg>>
    /\ UNCHANGED lineVars
    /\ UNCHANGED fmtVars

\* ------------------------------------------------------- ReadHTTPMessage

\* LenRejected without the test for a negative length
LenRejectedUnsigned(n, max) == n > max

\* the test that rejects a declared length
LenRejected(n, max) == n < 0 \/ n > max

\* BytesToRead without the min: every read asks for a whole chunk
BytesToReadWhole(n, p) == POST_READ_SIZE

\* the size of the next read
BytesToRead(n, p) == Min(n - p, POST_READ_SIZE)

\* Filled with the read storing at &vch[0] instead of &vch[ptr]
FilledAtStart(buf, p, n, got) ==
    LET grown == Take(buf, p) \o Rep(NulByte, n)
    IN  got \o Drop(grown, Len(got))

\* vch after resize(ptr + bytes_to_read) and a read that stored got at ptr
Filled(buf, p, n, got) == Take(buf, p) \o got \o Rep(NulByte, n - Len(got))

\* the connection header as ReadHTTPMessage leaves it
NormalizeConnection(m, p) ==
    LET sConHdr == MapGet(m, "connection")
        m1 == MapPut(m, "connection", sConHdr)
    IN  IF sConHdr # "close" /\ sConHdr # "keep-alive"
        THEN IF p >= 1
             THEN MapPut(m1, "connection", "keep-alive")
             ELSE MapPut(m1, "connection", "close")
        ELSE m1

\* the call: the out parameters are cleared, then the headers are read
ReadHTTPMessage_Begin(bytes, msg, p, max) ==
    /\ pc = "idle"
    /\ pc' = "headers"
    /\ stream' = MkStream(bytes)
    /\ strMsg' = msg
    /\ nProto' = p
    /\ max_size' = max
    /\ mapHeadersRet' = EmptyMap
    /\ strMessageRet' = ""
    /\ nLen' = 0
    /\ UNCHANGED <<vch, ptr, bytes_to_read, ret, nReads, bodyStart, str>>
    /\ UNCHANGED lineVars
    /\ UNCHANGED fmtVars

\* the declared length is out of range
ReadHTTPMessage_Reject ==
    /\ pc = "checklen"
    /\ LenRejected(nLen, max_size)
    /\ ret' = HTTP_INTERNAL_SERVER_ERROR
    /\ pc' = "done"
    /\ UNCHANGED msgVars
    /\ UNCHANGED lineVars
    /\ UNCHANGED fmtVars

\* the declared length is in range: on to the body, or past it when nLen = 0
ReadHTTPMessage_Accept ==
    /\ pc = "checklen"
    /\ ~LenRejected(nLen, max_size)
    /\ pc' = IF nLen > 0 THEN "body" ELSE "normalize"
    /\ vch' = ""
    /\ ptr' = 0
    /\ UNCHANGED <<stream, mapHeadersRet, strMessageRet, nProto, max_size, nLen,
                   bytes_to_read, ret, nReads, bodyStart, strMsg, str>>
    /\ UNCHANGED lineVars
    /\ UNCHANGED fmtVars

\* one turn of the body loop
ReadHTTPMessage_Read ==
    /\ pc = "body"
    /\ ptr < nLen
    /\ LET n == BytesToRead(nLen, ptr)
           rd == StreamRead(stream, n)
       IN  /\ bytes_to_read' = n
           /\ vch' = Filled(vch, ptr, n, rd[1])
           /\ stream' = rd[2]
           /\ nReads' = nReads + 1
           /\ IF rd[2].fail
              THEN /\ ret' = HTTP_INTERNAL_SERVER_ERROR
                   /\ pc' = "done"
                   /\ ptr' = ptr
              ELSE /\ ptr' = ptr + n
                   /\ UNCHANGED <<ret, pc>>
    /\ UNCHANGED <<mapHeadersRet, strMessageRet, nProto, max_size, nLen, bodyStart,
                   strMsg, str>>
    /\ UNCHANGED lineVars
    /\ UNCHANGED fmtVars

\* the loop is over: the buffer becomes the message
ReadHTTPMessage_Body ==
    /\ pc = "body"
    /\ ~(ptr < nLen)
    /\ strMessageRet' = vch
    /\ pc' = "normalize"
    /\ UNCHANGED <<stream, mapHeadersRet, nProto, max_size, nLen, vch, ptr,
                   bytes_to_read, ret, nReads, bodyStart, strMsg, str>>
    /\ UNCHANGED lineVars
    /\ UNCHANGED fmtVars

\* the connection header is normalised and the call returns HTTP_OK
ReadHTTPMessage_Return ==
    /\ pc = "normalize"
    /\ mapHeadersRet' = NormalizeConnection(mapHeadersRet, nProto)
    /\ ret' = HTTP_OK
    /\ pc' = "done"
    /\ UNCHANGED <<stream, strMessageRet, nProto, max_size, nLen, vch, ptr,
                   bytes_to_read, nReads, bodyStart, strMsg, str>>
    /\ UNCHANGED lineVars
    /\ UNCHANGED fmtVars

\* --------------------------------------------------- ReadHTTPRequestLine

\* the protocol version the third word gives: the atoi of what follows the
\* first "HTTP/1." in it, 0 when it holds none
ParseProto(strProto) ==
    LET ver == Find(strProto, "HTTP/1.")
    IN  IF ver > 0 THEN Atoi(Drop(strProto, ver + 6)) ELSE {0}

\* HTTP methods permitted: GET, POST
MethodPermitted(m) == m = "GET" \/ m = "POST"

\* UriAbsolute without the test of the first byte
UriNonEmpty(u) == ~(Len(u) = 0)

\* HTTP URI must be an absolute path, relative to current host
UriAbsolute(u) == ~(Len(u) = 0 \/ Ch(u, 1) # "/")

\* the whole call, on a stream holding bytes; the caller's version variable
\* holds p0 beforehand
ReadHTTPRequestLine(bytes, p0) ==
    /\ pc = "idle"
    /\ pc' = "linedone"
    /\ LET gl == GetLine(MkStream(bytes))
           vWords == Split(gl[1])
       IN  /\ str' = gl[1]
           /\ stream' = gl[2]
           /\ IF Len(vWords) < 2
              THEN /\ lineOk' = FALSE
                   /\ http_method' = http_method
                   /\ http_uri' = http_uri
                   /\ proto' = p0
              ELSE IF ~MethodPermitted(vWords[1])
              THEN /\ lineOk' = FALSE
                   /\ http_method' = vWords[1]
                   /\ http_uri' = http_uri
                   /\ proto' = p0
              ELSE IF ~UriAbsolute(vWords[2])
              THEN /\ lineOk' = FALSE
                   /\ http_method' = vWords[1]
                   /\ http_uri' = vWords[2]
                   /\ proto' = p0
              ELSE /\ lineOk' = TRUE
                   /\ http_method' = vWords[1]
                   /\ http_uri' = vWords[2]
                   /\ proto' \in ParseProto(IF Len(vWords) > 2 THEN vWords[3] ELSE "")
    /\ UNCHANGED <<mapHeadersRet, strMessageRet, nProto, max_size, nLen, vch, ptr,
                   bytes_to_read, ret, nReads, bodyStart, strMsg>>
    /\ UNCHANGED fmtVars

\* --------------------------------------------------------------- HTTPPost

\* FormatFullVersion(): the client's version string
FormatFullVersion == "v1.0.0"

\* the lines "name: value\n" of a header map, in the order std::map iterates
\* (hdrs is the sequence of its <<name, value>> pairs in key order)
RECURSIVE HeaderLinesOf(_)
HeaderLinesOf(hdrs) ==
    IF hdrs = <<>> THEN ""
    ELSE hdrs[1][1] \o ": " \o hdrs[1][2] \o "\n" \o HeaderLinesOf(Tail(hdrs))

\* HTTPPost leaving the Content-Length header out
HTTPPostNoLength(msg, mapRequestHeaders) ==
    "POST / HTTP/1.1\n"
    \o "Host: 127.0.0.1\n"
    \o "Connection: close\n"
    \o HeaderLinesOf(mapRequestHeaders)
    \o "\n"
    \o msg

HTTPPost(msg, mapRequestHeaders) ==
    "POST / HTTP/1.1\n"
    \o "User-Agent: nodex-json-rpc/" \o FormatFullVersion \o "\n"
    \o "Host: 127.0.0.1\n"
    \o "Content-Type: application/json\n"
    \o "Content-Length: " \o Itoa(Len(msg)) \o "\n"
    \o "Connection: close\n"
    \o "Accept: application/json\n"
    \o HeaderLinesOf(mapRequestHeaders)
    \o "\n"
    \o msg

\* --------------------------------------------------------------- JSON-RPC

\* A json_spirit Value, opaque to this layer: its type tag and the text
\* write_string gives it.
JNull == [type |-> "null", text |-> "null"]

JInt(n) == [type |-> "int", text |-> IF n < 0 THEN "-" \o Itoa(-n) ELSE Itoa(n)]

JStr(x) == [type |-> "str", text |-> "\"" \o x \o "\""]

JArray(items) == [type |-> "array", text |-> "[" \o items \o "]"]

Pair(name, value) == [name |-> name, value |-> value]

\* write_string(Value(obj), false): the members in order, no white space
RECURSIVE MembersText(_)
MembersText(obj) ==
    IF obj = <<>> THEN ""
    ELSE "\"" \o obj[1].name \o "\":" \o obj[1].value.text
         \o (IF Len(obj) > 1 THEN "," ELSE "") \o MembersText(Tail(obj))

JObject(obj) == [type |-> "obj", text |-> "{" \o MembersText(obj) \o "}"]

JSONRPCRequest(strMethod, params, id) ==
    JObject(<<Pair("method", JStr(strMethod)), Pair("params", params),
              Pair("id", id)>>).text \o "\n"

\* ReplyResult passing the result on whatever the error
ReplyResultKept(result, error) == result

\* the value the result member gets
ReplyResult(result, error) == IF error.type # "null" THEN JNull ELSE result

JSONRPCReplyObj(result, error, id) ==
    <<Pair("result", ReplyResult(result, error)), Pair("error", error), Pair("id", id)>>

JSONRPCReply(result, error, id) ==
    JObject(JSONRPCReplyObj(result, error, id)).text \o "\n"

JSONRPCError(code, message) ==
    <<Pair("code", JInt(code)), Pair("message", JStr(message))>>

\* ---------------------------------------------------------- HTTP replies

TwoDigits(n) == Itoa(n \div 10) \o Itoa(n % 10)

\* DateTimeStrFormat("%a, %d %b %Y %H:%M:%S +0000", t), for a time t within
\* the first hour of the epoch
DateTimeStrFormat(t) ==
    "Thu, 01 Jan 1970 00:" \o TwoDigits(t \div 60) \o ":" \o TwoDigits(t % 60)
    \o " +0000"

rfc1123Time(t) == DateTimeStrFormat(t)

httpStatusDescription(nStatus) ==
    CASE nStatus = HTTP_OK -> "OK"
      [] nStatus = HTTP_BAD_REQUEST -> "Bad Request"
      [] nStatus = HTTP_FORBIDDEN -> "Forbidden"
      [] nStatus = HTTP_NOT_FOUND -> "Not Found"
      [] nStatus = HTTP_INTERNAL_SERVER_ERROR -> "Internal Server Error"
      [] OTHER -> ""

HTTPReplyHeader(nStatus, keepalive, contentLength, contentType, t) ==
    "HTTP/1.1 " \o Itoa(nStatus) \o " " \o httpStatusDescription(nStatus) \o "\n"
    \o "Date: " \o rfc1123Time(t) \o "\n"
    \o "Connection: " \o (IF keepalive THEN "keep-alive" ELSE "close") \o "\n"
    \o "Content-Length: " \o Itoa(contentLength) \o "\n"
    \o "Content-Type: " \o contentType \o "\n"
    \o "Server: nodex-json-rpc/" \o FormatFullVersion \o "\n"
    \o "\n"

HTTPReply(nStatus, msg, keepalive, headersOnly, contentType, t) ==
    IF headersOnly
    THEN HTTPReplyHeader(nStatus, keepalive, 0, contentType, t)
    ELSE HTTPReplyHeader(nStatus, keepalive, Len(msg), contentType, t) \o msg

\* the fixed HTML document of the 401 response
UnauthorizedBody ==
    "<!DOCTYPE HTML PUBLIC \"-//W3C//DTD HTML 4.01 Transitional//EN\"\n"
    \o "\"http://www.w3.org/TR/1999/REC-html401-19991224/loose.dtd\">\n"
    \o "<HTML>\n"
    \o "<HEAD>\n"
    \o "<TITLE>Error</TITLE>\n"
    \o "<META HTTP-EQUIV='Content-Type' CONTENT='text/html; charset=ISO-8859-1'>\n"
    \o "</HEAD>\n"
    \o "<BODY><H1>401 Unauthorized.</H1></BODY>\n"
    \o "</HTML>\n"

\* the Date header line of the 401 response
UnauthorizedDate(t) == "Date: " \o rfc1123Time(t) \o "\n"

\* HTTPError with the 401 response leaving its body out when headersOnly
HTTPErrorHeadersOnly(nStatus, keepalive, headersOnly, t) ==
    IF nStatus = HTTP_UNAUTHORIZED
    THEN "HTTP/1.0 401 Authorization Required\n"
         \o UnauthorizedDate(t)
         \o "Server: nodex-json-rpc/" \o FormatFullVersion \o "\n"
         \o "WWW-Authenticate: Basic realm=\"jsonrpc\"\n"
         \o "Content-Type: text/html\n"
         \o "Content-Length: 296\n"
         \o "\n"
         \o (IF headersOnly THEN "" ELSE UnauthorizedBody)
    ELSE HTTPReply(nStatus, httpStatusDescription(nStatus), keepalive, headersOnly,
                   "text/plain", t)

\* HTTPError called when GetTime() returns t
HTTPError(nStatus, keepalive, headersOnly, t) ==
    IF nStatus = HTTP_UNAUTHORIZED
    THEN "HTTP/1.0 401 Authorization Required\n"
         \o UnauthorizedDate(t)
         \o "Server: nodex-json-rpc/" \o FormatFullVersion \o "\n"
         \o "WWW-Authenticate: Basic realm=\"jsonrpc\"\n"
         \o "Content-Type: text/html\n"
         \o "Content-Length: 296\n"
         \o "\n"
         \o UnauthorizedBody
    ELSE HTTPReply(nStatus, httpStatusDescription(nStatus), keepalive, headersOnly,
                   "text/plain", t)

\* every byte of a response after the blank line that ends its headers
BodyOf(resp) == Drop(resp, Find(resp, "\n\n") + 1)

\* the value of the Content-Length header of a response
ContentLengthOf(resp) ==
    LET i == Find(resp, "Content-Length: ")
    IN  Atoi(Drop(resp, i + 15))

\* ---------------------------------------------------------------- inputs

Protos == {0, 1}

\* most header lines ahead of the terminator
MaxHeaderLines == 2

\* most bytes a small stream holds after the header terminator
MaxBody == 3

\* bytes a large body holds beyond whole chunks
MaxExtra == 1

\* latest wall-clock second
MaxTime == 2

\* header lines that declare a length: plain, lowercase without a space,
\* uppercase with white space and a digit followed by text, text alone,
\* negative, and beyond the range of an int
LengthLines ==
    {"Content-Length: 2", "content-length:0", " CONTENT-LENGTH \t: 1x\r",
     "Content-Length: x", "Content-Length: -1", "Content-Length: 4294967298"}

\* header lines that name the connection, lines that are no header, and
\* one that declares a length
OtherLines ==
    {"Connection: close", "connection:  keep-alive ", "Connection: Close",
     "nocolon", "\r", "Content-Length:1"}

RECURSIVE SeqsUpTo(_, _)
SeqsUpTo(S, n) ==
    IF n = 0 THEN {<<>>}
    ELSE LET R == SeqsUpTo(S, n - 1)
         IN  R \cup {Append(r, x) : r \in {q \in R : Len(q) = n - 1}, x \in S}

RECURSIVE JoinLines(_)
JoinLines(lines) ==
    IF lines = <<>> THEN "" ELSE lines[1] \o "\n" \o JoinLines(Tail(lines))

\* bodies whose bytes differ from place to place, a line feed among them
SmallBodies == {Take("a\nbcdefgh", k) : k \in 0..MaxBody}

\* a large body: a chunk of a, a chunk of b, then c
LargeBody(n) ==
    Take(Rep("a", POST_READ_SIZE) \o Rep("b", POST_READ_SIZE) \o Rep("c", POST_READ_SIZE), n)

LargeLens ==
    {POST_READ_SIZE, 2 * POST_READ_SIZE} \cup
    {k * POST_READ_SIZE + MaxExtra : k \in 1..2}

\* lines that declare a length, then a blank line or the end of the stream,
\* then a body; read at version 1 under a small limit
LengthInputs ==
    {[bytes |-> JoinLines(h) \o t \o b, msg |-> None, nProto |-> 1, max_size |-> m] :
        h \in SeqsUpTo(LengthLines, MaxHeaderLines), t \in {"\n", ""},
        b \in SmallBodies, m \in {1, MaxBody}}

\* other lines, then a blank line, then at most one byte; read at either
\* version
OtherInputs ==
    {[bytes |-> JoinLines(h) \o "\n" \o b, msg |-> None, nProto |-> p, max_size |-> 1] :
        h \in SeqsUpTo(OtherLines, MaxHeaderLines), b \in {"", "a"}, p \in Protos}

\* a declared length of more than one chunk, and a body that holds as many
\* bytes, one more or one fewer
LargeInputs ==
    {[bytes |-> "Content-Length: " \o Itoa(n) \o "\n\n" \o LargeBody(n + d),
      msg |-> None, nProto |-> 1, max_size |-> m] :
        n \in LargeLens, d \in {-1, 0, 1},
        m \in {POST_READ_SIZE, 2 * POST_READ_SIZE + MaxExtra}}

Messages ==
    {"", JSONRPCRequest("getinfo", JArray(""), JInt(1)), "a\n\nContent-Length: 1\n",
     LargeBody(POST_READ_SIZE + MaxExtra)}

RequestHeaderMaps == {<<>>, <<<<"Authorization", "Basic dTpw">>>>}

\* what HTTPPost renders, read under a limit of one byte, of the message's
\* length and of one byte more
PostInputs ==
    UNION {{[bytes |-> HTTPPost(m, h), msg |-> m, nProto |-> p, max_size |-> x] :
               h \in RequestHeaderMaps, p \in Protos, x \in {1, Len(m), Len(m) + 1}} :
           m \in Messages}

Methods == {"GET", "POST", "PUT", "get", "GETS", ""}

Uris == {"/", "/a\r", "a/", "", "http://h/"}

ProtoWords ==
    {"HTTP/1.1", "HTTP/1.0", "HTTP/1.1\r", "HTTP/1.12", "HTTP/2.0", "xHTTP/1.1",
     "HTTP/1.x", "HTTP/1.1x", "http/1.1", ""}

RequestLines ==
    {"", "GET", "GET /", "POST /a", "GET / HTTP/1.1 x"} \cup
    {m \o " " \o u \o " " \o w : m \in Methods, u \in Uris, w \in ProtoWords}

\* ------------------------------------------------------------------- Spec

\* a caller hands ReadHTTPMessage a stream, a version and a limit
CallReadHTTPMessage ==
    /\ pc = "idle"
    /\ \E in \in LengthInputs \cup OtherInputs \cup LargeInputs \cup PostInputs :
          ReadHTTPMessage_Begin(in.bytes, in.msg, in.nProto, in.max_size)

\* a caller hands ReadHTTPRequestLine a stream: a request line and a header
CallReadHTTPRequestLine ==
    /\ pc = "idle"
    /\ \E line \in RequestLines, p0 \in {0, 9} :
          ReadHTTPRequestLine(line \o "\nHost: h\n", p0)

Next ==
    \/ CallReadHTTPMessage
    \/ ReadHTTPHeaders_Line
    \/ ReadHTTPHeaders_Return
    \/ ReadHTTPMessage_Reject
    \/ ReadHTTPMessage_Accept
    \/ ReadHTTPMessage_Read
    \/ ReadHTTPMessage_Body
    \/ ReadHTTPMessage_Return
    \/ CallReadHTTPRequestLine

Spec == Init /\ [][Next]_vars

\* -------------------------------------------------- the formatting calls

Statuses ==
    {HTTP_OK, HTTP_BAD_REQUEST, HTTP_UNAUTHORIZED, HTTP_FORBIDDEN, HTTP_NOT_FOUND,
     HTTP_INTERNAL_SERVER_ERROR}

\* values a caller passes as result, error and id
JValues ==
    {JNull, JInt(1), JStr("x"), JObject(JSONRPCError(-1, "m"))}

\* the wall clock moves on
Tick ==
    /\ now < MaxTime
    /\ now' = now + 1
    /\ UNCHANGED <<pc, ret, reply, replyObj, call, prev, prevCall>>
    /\ UNCHANGED msgVars
    /\ UNCHANGED lineVars

\* a caller builds an error response; a 401 response built by the call
\* before is kept in prev
CallHTTPError ==
    /\ \E nStatus \in Statuses, keepalive \in BOOLEAN, headersOnly \in BOOLEAN :
          /\ reply' = HTTPError(nStatus, keepalive, headersOnly, now)
          /\ call' = [fn |-> "HTTPError", nStatus |-> nStatus,
                      keepalive |-> keepalive, headersOnly |-> headersOnly,
                      t |-> now]
    /\ IF call.fn = "HTTPError" /\ call.nStatus = HTTP_UNAUTHORIZED
       THEN prev' = reply /\ prevCall' = call
       ELSE UNCHANGED <<prev, prevCall>>
    /\ replyObj' = <<>>
    /\ UNCHANGED <<pc, ret, now>>
    /\ UNCHANGED msgVars
    /\ UNCHANGED lineVars

\* a caller builds a JSON-RPC reply
CallJSONRPCReply ==
    /\ \E result \in JValues, error \in JValues, id \in JValues :
          /\ replyObj' = JSONRPCReplyObj(result, error, id)
          /\ reply' = JSONRPCReply(result, error, id)
          /\ call' = [fn |-> "JSONRPCReply", result |-> result, error |-> error,
                      id |-> id]
    /\ UNCHANGED <<pc, ret, now, prev, prevCall>>
    /\ UNCHANGED msgVars
    /\ UNCHANGED lineVars

NextReply == Tick \/ CallHTTPError \/ CallJSONRPCReply

SpecReply == Init /\ [][NextReply]_vars

\* ================================================================ claims

Returned == pc = "done"

\* C1: a declared length L with 0 <= L <= max_size and a stream that holds at
\* least L bytes after the header terminator give HTTP_OK and a message that
\* is exactly the first L of those bytes; the stream is left at the byte
\* after them.
C1_BodyIsFirstBytes ==
    (Returned /\ 0 <= nLen /\ nLen <= max_size /\ Len(bodyStart) >= nLen)
        => /\ ret = HTTP_OK
           /\ strMessageRet = Take(bodyStart, nLen)
           /\ stream.data = Drop(bodyStart, nLen)

\* a body of more than one chunk was returned, and the stream held more
C1_Witness ==
    /\ Returned
    /\ ret = HTTP_OK
    /\ nLen > POST_READ_SIZE
    /\ Len(bodyStart) > nLen
    /\ strMessageRet = Take(bodyStart, nLen)

\* the empty body of a declared length 0
C1_WitnessEmpty ==
    Returned /\ ret = HTTP_OK /\ nLen = 0 /\ bodyStart # "" /\ strMessageRet = ""

\* C2: a negative length, a length above max_size, or a stream that ends
\* before the declared number of bytes, gives HTTP_INTERNAL_SERVER_ERROR and
\* an empty message, and these are the only failures; a rejected length reads
\* no byte of the body.
C2_FailureIsEmpty ==
    Returned =>
        /\ (nLen < 0 \/ nLen > max_size \/ Len(bodyStart) < nLen)
              <=> ret = HTTP_INTERNAL_SERVER_ERROR
        /\ ret # HTTP_OK => ret = HTTP_INTERNAL_SERVER_ERROR /\ strMessageRet = ""
        /\ (nLen < 0 \/ nLen > max_size) => nReads = 0 /\ stream.data = bodyStart

\* the stream ended in the second chunk, after a whole chunk had been read
C2_Witness ==
    /\ Returned
    /\ ret = HTTP_INTERNAL_SERVER_ERROR
    /\ nReads = 2
    /\ Len(vch) > POST_READ_SIZE
    /\ strMessageRet = ""

\* C3 (as claimed): a connection value equal to close or keep-alive without
\* regard to case passes through unchanged; any other value becomes
\* keep-alive when nProto >= 1 and close otherwise.
C3_CaseInsensitivePassThrough ==
    [][(pc = "normalize" /\ pc' = "done") =>
          LET sent == MapGet(mapHeadersRet, "connection")
          IN  mapHeadersRet'["connection"] =
                 IF ToLower(sent) \in {"close", "keep-alive"} THEN sent
                 ELSE IF nProto >= 1 THEN "keep-alive" ELSE "close"]_vars

\* C4 (as claimed): the body of the 401 response is 296 bytes long, the
\* value of its Content-Length header.
C4_UnauthorizedBodyLength ==
    (call.fn = "HTTPError" /\ call.nStatus = HTTP_UNAUTHORIZED)
        => /\ ContentLengthOf(reply) = {296}
           /\ Len(BodyOf(reply)) = 296

Both401 ==
    /\ call.fn = "HTTPError"
    /\ call.nStatus = HTTP_UNAUTHORIZED
    /\ prevCall.fn = "HTTPError"

\* C5 (as claimed): any two 401 responses, built at any two times with any
\* flags, are equal byte for byte.
C5_AlwaysIdentical == Both401 => reply = prev

\* C5 (amended): two 401 responses built while the clock reads the same
\* second are equal byte for byte whatever the flags; built at any two
\* times, their bodies are equal.
C5_IdenticalWithinSecond ==
    Both401 => /\ call.t = prevCall.t => reply = prev
               /\ BodyOf(reply) = BodyOf(prev)

\* two 401 responses of one second, built with opposite flags
C5_Witness ==
    /\ Both401
    /\ call.t = prevCall.t
    /\ call.keepalive # prevCall.keepalive
    /\ call.headersOnly # prevCall.headersOnly
    /\ reply = prev

\* C6: the reply object holds result, error, id in this order; with a
\* non-null error the result member is null whatever result was passed, with
\* a null error it is the result passed; error and id are those passed; the
\* text is the object written without white space and a line feed.
C6_ErrorNullsResult ==
    call.fn = "JSONRPCReply" =>
        /\ Len(replyObj) = 3
        /\ <<replyObj[1].name, replyObj[2].name, replyObj[3].name>>
              = <<"result", "error", "id">>
        /\ call.error # JNull => replyObj[1].value = JNull
        /\ call.error = JNull => replyObj[1].value = call.result
        /\ replyObj[2].value = call.error
        /\ replyObj[3].value = call.id
        /\ ~(replyObj[1].value # JNull /\ replyObj[2].value # JNull)
        /\ reply = "{\"result\":" \o replyObj[1].value.text
                   \o ",\"error\":" \o call.error.text
                   \o ",\"id\":" \o call.id.text \o "}\n"

\* a result and an error were both passed, and the result was dropped
C6_Witness ==
    /\ call.fn = "JSONRPCReply"
    /\ call.error # JNull
    /\ call.result # JNull
    /\ replyObj[1].value = JNull

\* C7: the bytes HTTPPost renders for a message no longer than max_size,
\* read by ReadHTTPMessage, give HTTP_OK and the message.
C7_PostRoundTrip ==
    (Returned /\ strMsg # None /\ Len(strMsg) <= max_size)
        => ret = HTTP_OK /\ strMessageRet = strMsg

\* the round trip of the getinfo request
C7_Witness ==
    /\ Returned
    /\ strMsg = JSONRPCRequest("getinfo", JArray(""), JInt(1))
    /\ strMsg = "{\"method\":\"getinfo\",\"params\":[],\"id\":1}\n"
    /\ ret = HTTP_OK
    /\ strMessageRet = strMsg

\* the third word of a request line, "" when there is none
ThirdWord(line) == IF Len(Split(line)) > 2 THEN Split(line)[3] ELSE ""

\* C8: a request line is accepted exactly when it starts with "GET /" or
\* "POST /": a first word that is exactly GET or POST, one space, and a
\* second word starting with "/".  On acceptance the version is the number
\* that follows "HTTP/1." in the third word ("matches" being the search
\* strstr makes), and 0 when there is no third word or it holds no "HTTP/1.".
C8_RequestLine ==
    pc = "linedone" =>
        /\ lineOk <=> (Take(str, 5) = "GET /" \/ Take(str, 6) = "POST /")
        /\ lineOk =>
              LET w == ThirdWord(str)
                  at == Find(w, "HTTP/1.")
              IN  IF at > 0
                  THEN proto \in Atoi(Drop(w, at + 6))
                  ELSE proto = 0

\* an accepted line whose version came from the third word
C8_Witness ==
    /\ pc = "linedone"
    /\ lineOk
    /\ http_method = "POST"
    /\ ThirdWord(str) = "HTTP/1.1"
    /\ proto = 1

\* a rejected line whose method and URI alone are well formed
C8_WitnessRejected ==
    pc = "linedone" /\ ~lineOk /\ http_method = "GET" /\ http_uri = "a/"

\* s holds only decimal digits
RECURSIVE AllDigits(_)
AllDigits(s) == s = "" \/ (IsDigit(Ch(s, 1)) /\ AllDigits(Drop(s, 1)))

\* s is a number: an optional sign and one or more digits
IsNumber(s) ==
    LET d == IF s # "" /\ Ch(s, 1) \in {"-", "+"} THEN Drop(s, 1) ELSE s
    IN  d # "" /\ AllDigits(d)

\* C9 (as claimed): when ReadHTTPHeaders returns, the declared length is the
\* integer value of the content-length value in the map, and 0 when the map
\* holds none or its value is not a number.
C9_DeclaredLength ==
    pc = "checklen" =>
        IF "content-length" \in DOMAIN mapHeadersRet
           /\ IsNumber(mapHeadersRet["content-length"])
        THEN /\ AtoiDefined(mapHeadersRet["content-length"])
             /\ nLen \in Atoi(mapHeadersRet["content-length"])
        ELSE nLen = 0

Ceil(a, b) == (a + b - 1) \div b

\* C10: every read of the body loop asks for 1 to POST_READ_SIZE bytes; the
\* cursor and the buffer stay within the declared length, which is within
\* max_size; a read that succeeds moves the cursor forward, one that fails
\* ends the call with HTTP_INTERNAL_SERVER_ERROR; there are at most
\* ceil(nLen / POST_READ_SIZE) reads, and the loop is left with ptr = nLen.
C10_BoundedReads ==
    [][/\ (pc = "body" /\ nReads' # nReads) =>
             /\ nReads' = nReads + 1
             /\ 1 <= bytes_to_read' /\ bytes_to_read' <= POST_READ_SIZE
             /\ ptr' <= nLen
             /\ Len(vch') <= nLen /\ nLen <= max_size
             /\ nReads' <= Ceil(nLen, POST_READ_SIZE)
             /\ IF pc' = "body"
                THEN ptr' > ptr /\ ptr' = ptr + bytes_to_read'
                ELSE pc' = "done" /\ ret' = HTTP_INTERNAL_SERVER_ERROR
       /\ (pc = "body" /\ pc' = "normalize") =>
             ptr = nLen /\ Len(vch) = nLen /\ nReads = Ceil(nLen, POST_READ_SIZE)
      ]_vars

\* the third read, shorter than a chunk, completed the body
C10_Witness ==
    /\ pc = "body"
    /\ nReads = 3
    /\ bytes_to_read < POST_READ_SIZE
    /\ ptr = nLen

====
